---- MODULE Spec2Model ----
(***************************************************************************)
(* TimepointApi (Packages/ohif-measurements/both/configuration/            *)
(* timepoints.js): an in-memory Mongo collection of timepoint records,     *)
(* derived views over it, and mutations that go through the externally     *)
(* supplied dataExchange functions.                                        *)
(***************************************************************************)
EXTENDS Integers, Sequences, FiniteSets, TLC

VARIABLES
    timepoints,         \* this.timepoints: the documents, in insertion order
    currentTimepointId, \* this.currentTimepointId
    dataExchange,       \* names of the functions present in configuration.dataExchange
    server,             \* the external data source behind dataExchange
    pending,            \* external promises that have not settled yet
    promises,           \* state of each promise retrieveTimepoints returned
    calls,              \* number of method invocations so far
    nextId,             \* number of _id values the collection handed out
    returned,           \* method and result of the latest invocation
    settled,            \* how the latest external promise settled
    component,          \* a form item: its $wrapper and $element
    instance,           \* the form item's template instance and its form
    focused,            \* whether the focused element is inside $wrapper
    timers              \* Meteor.setTimeout callbacks that have not run yet

formVars == <<component, instance, focused, timers>>

vars == <<formVars, timepoints, currentTimepointId, dataExchange, server,
          pending, promises, calls, nextId, returned, settled>>

-----------------------------------------------------------------------------
(* Bounds and domains *)

MaxCalls == 3

Undefined == "undefined"
TypeError == "TypeError"
PromiseValue == "Promise"

TimepointIds == {"tp1", "tp2", "tp3", "tp4"}
Dates == {1, 2, 3}

\* the timepoints the external data source holds, all of one patient
ServedIds == {"tp1", "tp2"}
ServedPatients == {"p1"}

ExchangeFns == {"retrieve", "store", "update", "remove", "disassociate"}

\* $set modifiers passed to updateTimepoint
Queries == [field : {"latestDate"}, value : {1, 3}]

-----------------------------------------------------------------------------
(* The Mongo collection: find / findOne / insert / update / remove *)

Range(s) == {s[i] : i \in 1..Len(s)}

\* a selector is a set of conditions on fields: {timepointId: x} is
\* {Eq("timepointId", x)}, {latestDate: {$lt: d}} is {Lt("latestDate", d)}
Eq(field, value) == [field |-> field, op |-> "$eq", value |-> value]
Lt(field, value) == [field |-> field, op |-> "$lt", value |-> value]

\* {field: {$lte: value}}: not used by TimepointApi itself
Lte(field, value) == [field |-> field, op |-> "$lte", value |-> value]

Matches(r, selector) ==
    \A c \in selector :
        CASE c.op = "$lt" -> r[c.field] < c.value
          [] c.op = "$lte" -> r[c.field] <= c.value
          [] OTHER -> r[c.field] = c.value

\* find(selector): the matching documents, in insertion order
Find(coll, selector) ==
    LET F[i \in 0..Len(coll)] ==
            IF i = 0 THEN <<>>
            ELSE IF Matches(coll[i], selector) THEN Append(F[i - 1], coll[i])
                 ELSE F[i - 1]
    IN  F[Len(coll)]

\* remove(selector): every matching document goes
Remove(coll, selector) ==
    LET F[i \in 0..Len(coll)] ==
            IF i = 0 THEN <<>>
            ELSE IF Matches(coll[i], selector) THEN F[i - 1]
                 ELSE Append(F[i - 1], coll[i])
    IN  F[Len(coll)]

\* sort: {latestDate: -1}; documents that compare equal keep their order
InsertDesc(sorted, r) ==
    LET k == Cardinality({i \in 1..Len(sorted) : sorted[i].latestDate >= r.latestDate})
    IN  SubSeq(sorted, 1, k) \o <<r>> \o SubSeq(sorted, k + 1, Len(sorted))

SortDesc(s) ==
    LET F[i \in 0..Len(s)] ==
            IF i = 0 THEN <<>> ELSE InsertDesc(F[i - 1], s[i])
    IN  F[Len(s)]

\* sort: {latestDate: 1}
InsertAsc(sorted, r) ==
    LET k == Cardinality({i \in 1..Len(sorted) : sorted[i].latestDate <= r.latestDate})
    IN  SubSeq(sorted, 1, k) \o <<r>> \o SubSeq(sorted, k + 1, Len(sorted))

SortAsc(s) ==
    LET F[i \in 0..Len(s)] ==
            IF i = 0 THEN <<>> ELSE InsertAsc(F[i - 1], s[i])
    IN  F[Len(s)]

\* findOne: the first document of a cursor, <<>> when there is none
FindOne(s) == IF s = <<>> THEN <<>> ELSE <<s[1]>>

\* delete timepoint._id; this.timepoints.insert(timepoint), for each in order
InsertAll(coll, id, data) ==
    coll \o [i \in 1..Len(data) |-> [data[i] EXCEPT !._id = id + i]]

\* collection.update(selector, {$set: ...}): the first matching document only
ApplySet(r, query) ==
    IF query.field = "latestDate" THEN [r EXCEPT !.latestDate = query.value]
    ELSE [r EXCEPT !.locked = query.value]

UpdateFirst(coll, selector, query) ==
    LET hits == {i \in 1..Len(coll) : Matches(coll[i], selector)}
    IN  IF hits = {} THEN coll
        ELSE LET k == CHOOSE i \in hits : \A j \in hits : i <= j
             IN  [coll EXCEPT ![k] = ApplySet(coll[k], query)]

-----------------------------------------------------------------------------
(* Derived views *)

\* all() sorting by latestDate ascending
allAscending(coll) == SortAsc(coll)

all(coll) == SortDesc(coll)

current(coll, cur) ==
    FindOne(Find(coll, {Eq("timepointId", cur)}))

\* prior() with $lte in place of $lt
priorNotStrict(coll, cur) ==
    LET c == current(coll, cur)
    IN  IF c = <<>> THEN <<>>
        ELSE FindOne(SortDesc(Find(coll, {Lte("latestDate", c[1].latestDate)})))

prior(coll, cur) ==
    LET c == current(coll, cur)
    IN  IF c = <<>> THEN <<>>
        ELSE FindOne(SortDesc(Find(coll, {Lt("latestDate", c[1].latestDate)})))

currentAndPrior(coll, cur) ==
    LET c == current(coll, cur)
        p == prior(coll, cur)
    IN  c \o (IF c # <<>> /\ p # <<>> /\ p[1]._id # c[1]._id THEN p ELSE <<>>)

\* indexOf: position of the first occurrence, 0-based, -1 when absent
IndexOf(s, x) ==
    IF \E i \in 1..Len(s) : s[i] = x
    THEN (CHOOSE i \in 1..Len(s) : s[i] = x /\ \A j \in 1..(i - 1) : s[j] # x) - 1
    ELSE -1

\* name() ranking among the follow-ups of every patient
nameAnyPatient(coll, t) ==
    IF t.timepointType = "baseline" THEN "Baseline"
    ELSE LET followupTimepoints ==
                 SortAsc(Find(coll, {Eq("timepointType", t.timepointType)}))
             followupTimepointIds ==
                 [i \in 1..Len(followupTimepoints) |-> followupTimepoints[i].timepointId]
             index == IndexOf(followupTimepointIds, t.timepointId) + 1
         IN  IF index = 0 THEN Undefined
             ELSE "Follow-up " \o ToString(index)

\* name() without the check of index being 0
nameAbsentAsZero(coll, t) ==
    IF t.timepointType = "baseline" THEN "Baseline"
    ELSE LET followupTimepoints ==
                 SortAsc(Find(coll, {Eq("patientId", t.patientId),
                                    Eq("timepointType", t.timepointType)}))
             followupTimepointIds ==
                 [i \in 1..Len(followupTimepoints) |-> followupTimepoints[i].timepointId]
             index == IndexOf(followupTimepointIds, t.timepointId) + 1
         IN  "Follow-up " \o ToString(index)

name(coll, t) ==
    IF t.timepointType = "baseline" THEN "Baseline"
    ELSE LET followupTimepoints ==
                 SortAsc(Find(coll, {Eq("patientId", t.patientId),
                                    Eq("timepointType", t.timepointType)}))
             followupTimepointIds ==
                 [i \in 1..Len(followupTimepoints) |-> followupTimepoints[i].timepointId]
             index == IndexOf(followupTimepointIds, t.timepointId) + 1
         IN  IF index = 0 THEN Undefined
             ELSE "Follow-up " \o ToString(index)

NotInList == "Current follow-up was not in the list of relevant follow-ups?"

\* the messages name() hands to OHIF.log.warn
nameWarnings(coll, t) ==
    IF t.timepointType = "baseline" THEN <<>>
    ELSE LET followupTimepoints ==
                 SortAsc(Find(coll, {Eq("patientId", t.patientId),
                                    Eq("timepointType", t.timepointType)}))
             followupTimepointIds ==
                 [i \in 1..Len(followupTimepoints) |-> followupTimepoints[i].timepointId]
             index == IndexOf(followupTimepointIds, t.timepointId) + 1
         IN  IF index = 0 THEN <<NotInList>> ELSE <<>>

\* the loop of title(): <<index, currentIndex>> after visiting all[1..i],
\* stopping at the first record with the timepointId asked for
NoIndex == -1
NotANumber == -2

TitleIndex(allTps, cur, t) ==
    LET stop == IF \E i \in 1..Len(allTps) : allTps[i].timepointId = t.timepointId
                THEN CHOOSE i \in 1..Len(allTps) :
                        /\ allTps[i].timepointId = t.timepointId
                        /\ \A j \in 1..(i - 1) : allTps[j].timepointId # t.timepointId
                ELSE Len(allTps)
        L[i \in 0..stop] ==
            IF i = 0 THEN <<NoIndex, NotANumber>>
            ELSE LET currentIndex == IF cur = allTps[i].timepointId THEN 0 ELSE L[i - 1][2]
                 IN  IF currentIndex # NotANumber
                     THEN <<currentIndex, currentIndex + 1>>
                     ELSE <<L[i - 1][1], currentIndex>>
    IN  L[stop][1]

Parenthesis(index) ==
    IF index = 0 THEN "(Current)" ELSE IF index = 1 THEN "(Prior)" ELSE ""

title(coll, cur, t) ==
    name(coll, t) \o " " \o Parenthesis(TitleIndex(all(coll), cur, t))

\* key() and study() insert into a new collection and return its
\* find().fetch(): the documents in the order they were inserted

\* key() keeping the first two entries only
keyFirstTwo(coll) ==
    LET allTps == all(coll)
        F[i \in 0..Len(allTps)] ==
            IF i = 0 THEN <<>>
            ELSE IF i - 1 < 2 THEN Append(F[i - 1], allTps[i])
                 ELSE F[i - 1]
    IN  F[Len(allTps)]

\* _.each(all, (timepoint, index) => ...) with index counted from 0
key(coll) ==
    LET allTps == all(coll)
        F[i \in 0..Len(allTps)] ==
            IF i = 0 THEN <<>>
            ELSE IF i - 1 < 2 \/ i - 1 = Len(allTps) - 1
                 THEN Append(F[i - 1], allTps[i])
                 ELSE F[i - 1]
    IN  F[Len(allTps)]

\* study() going through the documents in insertion order
studyUnsorted(coll, studyInstanceUid) ==
    LET F[i \in 0..Len(coll)] ==
            IF i = 0 THEN <<>>
            ELSE IF studyInstanceUid \in coll[i].studyInstanceUids
                 THEN Append(F[i - 1], coll[i])
                 ELSE F[i - 1]
    IN  F[Len(coll)]

study(coll, studyInstanceUid) ==
    LET allTps == all(coll)
        F[i \in 0..Len(allTps)] ==
            IF i = 0 THEN <<>>
            ELSE IF studyInstanceUid \in allTps[i].studyInstanceUids
                 THEN Append(F[i - 1], allTps[i])
                 ELSE F[i - 1]
    IN  F[Len(allTps)]

-----------------------------------------------------------------------------
(* The external data source reached through configuration.dataExchange *)

PatientOf(tp) == IF tp = "tp4" THEN "p2" ELSE "p1"

TypeOf(tp) == IF tp = "tp1" THEN "baseline" ELSE "followup"

StudiesOf(tp) ==
    CASE tp = "tp1" -> {"s1"}
      [] tp = "tp2" -> {"s1", "s2"}
      [] tp = "tp3" -> {"s2"}
      [] OTHER -> {}

SourceId(tp) ==
    CASE tp = "tp1" -> -1 [] tp = "tp2" -> -2 [] tp = "tp3" -> -3 [] OTHER -> -4

SourceIds == {SourceId(tp) : tp \in TimepointIds}

\* a timepoint document as the external source holds it, with the source's _id
SourceRecord(tp, date) ==
    [_id |-> SourceId(tp), timepointId |-> tp, patientId |-> PatientOf(tp),
     timepointType |-> TypeOf(tp), latestDate |-> date,
     studyInstanceUids |-> StudiesOf(tp), locked |-> FALSE]

\* retrieve(patientId): the patient's records, in the source's order
ServerRetrieve(srv, patientId) ==
    Find(srv, {Eq("patientId", patientId)})

\* update(filter, changes)
ServerUpdate(srv, tp, query) ==
    UpdateFirst(srv, {Eq("timepointId", tp)}, query)

\* remove(filter)
ServerRemove(srv, tp) ==
    Remove(srv, {Eq("timepointId", tp)})

\* disassociate(timepointIds, studyInstanceUid)
ServerDisassociate(srv, tpIds, uid) ==
    [i \in 1..Len(srv) |->
        IF srv[i].timepointId \in tpIds
        THEN [srv[i] EXCEPT !.studyInstanceUids = @ \ {uid}]
        ELSE srv[i]]

-----------------------------------------------------------------------------
(* Construction *)

InitServer == <<SourceRecord("tp1", 1), SourceRecord("tp2", 2)>>

InitConfigurations ==
    {ExchangeFns} \cup {ExchangeFns \ {f} : f \in ExchangeFns}

NothingSettled == "none"

\* no form item has been created
NoFormItem ==
    /\ component = Undefined
    /\ instance = Undefined
    /\ focused = FALSE
    /\ timers = 0

Init ==
    /\ timepoints = <<>>
    /\ currentTimepointId \in {Undefined, "tp2"}
    /\ dataExchange \in InitConfigurations
    /\ server = InitServer
    /\ pending = {}
    /\ promises = <<>>
    /\ calls = 0
    /\ nextId = 0
    /\ returned = [op |-> "constructor", value |-> Undefined]
    /\ settled = NothingSettled
    /\ NoFormItem

-----------------------------------------------------------------------------
(* Methods *)

Returns(op, value) == returned' = [op |-> op, value |-> value]

\* the body of retrieveTimepoints: the guard, then the new Promise whose
\* executor calls retrievalFn(patientId)
RetrieveCall(patientId, id) ==
    IF "retrieve" \notin dataExchange
    THEN UNCHANGED <<pending, promises>>
    ELSE /\ pending' = pending \cup
                {[id |-> id, fn |-> "retrieve", patientId |-> patientId]}
         /\ promises' = Append(promises, [id |-> id, state |-> "pending"])

retrieveTimepoints(patientId) ==
    /\ calls < MaxCalls
    /\ calls' = calls + 1
    /\ RetrieveCall(patientId, calls + 1)
    /\ Returns("retrieveTimepoints",
               IF "retrieve" \in dataExchange THEN PromiseValue ELSE Undefined)
    /\ UNCHANGED <<formVars, timepoints, currentTimepointId, dataExchange, server, nextId,
                   settled>>

\* storeTimepoints handing over the first document only
StoreFirstOnly(coll) == FindOne(Find(coll, {}))

\* const timepointData = this.timepoints.find().fetch()
StoreArgument(coll) == Find(coll, {})

storeTimepoints ==
    /\ calls < MaxCalls
    /\ calls' = calls + 1
    /\ IF "store" \notin dataExchange
       THEN UNCHANGED pending
       ELSE pending' = pending \cup
                {[id |-> calls + 1, fn |-> "store",
                  data |-> StoreArgument(timepoints)]}
    /\ Returns("storeTimepoints", Undefined)
    /\ UNCHANGED <<formVars, timepoints, currentTimepointId, dataExchange, server,
                   promises, nextId, settled>>

\* disassociateFn is called without the _.isFunction check the others have
DisassociateCall(tpIds, uid, id) ==
    IF "disassociate" \notin dataExchange
    THEN /\ UNCHANGED pending
         /\ Returns("disassociateStudy", TypeError)
    ELSE /\ pending' = pending \cup
                {[id |-> id, fn |-> "disassociate",
                  timepointIds |-> tpIds, studyInstanceUid |-> uid]}
         /\ Returns("disassociateStudy", Undefined)

disassociateStudy(tpIds, uid) ==
    /\ calls < MaxCalls
    /\ calls' = calls + 1
    /\ DisassociateCall(tpIds, uid, calls + 1)
    /\ UNCHANGED <<formVars, timepoints, currentTimepointId, dataExchange, server,
                   promises, nextId, settled>>

\* this.timepoints.remove({timepointId}): every matching document
Removed(coll, tp) == Remove(coll, {Eq("timepointId", tp)})

\* what removeTimepoint does to the collection before it returns
RemoveCallEffect(coll, tp) == coll

removeTimepoint(tp) ==
    /\ calls < MaxCalls
    /\ calls' = calls + 1
    /\ IF "remove" \notin dataExchange
       THEN UNCHANGED <<pending, timepoints>>
       ELSE /\ pending' = pending \cup
                    {[id |-> calls + 1, fn |-> "remove", timepointId |-> tp]}
            /\ timepoints' = RemoveCallEffect(timepoints, tp)
    /\ Returns("removeTimepoint", Undefined)
    /\ UNCHANGED <<formVars, currentTimepointId, dataExchange, server, promises, nextId,
                   settled>>

\* this.timepoints.update({timepointId}, query)
Updated(coll, tp, query) ==
    UpdateFirst(coll, {Eq("timepointId", tp)}, query)

\* updateTimepoint applying the change before the round trip
UpdateCallOptimistic(coll, tp, query) == Updated(coll, tp, query)

\* what updateTimepoint does to the collection before it returns
UpdateCallEffect(coll, tp, query) == coll

updateTimepoint(tp, query) ==
    /\ calls < MaxCalls
    /\ calls' = calls + 1
    /\ IF "update" \notin dataExchange
       THEN UNCHANGED <<pending, timepoints>>
       ELSE /\ pending' = pending \cup
                    {[id |-> calls + 1, fn |-> "update", timepointId |-> tp,
                      query |-> query]}
            /\ timepoints' = UpdateCallEffect(timepoints, tp, query)
    /\ Returns("updateTimepoint", Undefined)
    /\ UNCHANGED <<formVars, currentTimepointId, dataExchange, server, promises, nextId,
                   settled>>

\* lock() leaving the change to a later callback
LockDeferred(coll, cur) == coll

\* this.timepoints.update(current._id, {$set: {locked: true}})
LockedTimepoints(coll, cur) ==
    LET c == current(coll, cur)
    IN  IF c = <<>> THEN coll
        ELSE UpdateFirst(coll, {Eq("_id", c[1]._id)},
                         [field |-> "locked", value |-> TRUE])

lock ==
    /\ calls < MaxCalls
    /\ calls' = calls + 1
    /\ timepoints' = LockedTimepoints(timepoints, currentTimepointId)
    /\ Returns("lock", Undefined)
    /\ UNCHANGED <<formVars, currentTimepointId, dataExchange, server, pending,
                   promises, nextId, settled>>

-----------------------------------------------------------------------------
(* Completion of the external promises *)

Fulfilled(p) == settled' = "fulfilled"

\* resolve() of the promise retrieveTimepoints returned
Resolve(id) ==
    [i \in 1..Len(promises) |->
        IF promises[i].id = id THEN [promises[i] EXCEPT !.state = "resolved"]
        ELSE promises[i]]

\* the collection after the .then callback of retrieveTimepoints
Retrieved(coll, id, timepointData) == InsertAll(coll, id, timepointData)

\* retrievalFn(patientId).then(timepointData => { ...insert...; resolve(); })
RetrieveResolved(p) ==
    LET timepointData == ServerRetrieve(server, p.patientId)
    IN  /\ p.fn = "retrieve"
        /\ Fulfilled(p)
        /\ timepoints' = Retrieved(timepoints, nextId, timepointData)
        /\ nextId' = nextId + Len(timepointData)
        /\ promises' = Resolve(p.id)
        /\ pending' = pending \ {p}
        /\ UNCHANGED <<formVars, currentTimepointId, dataExchange, server, calls, returned>>

\* storeFn(timepointData).then(() => OHIF.log.info(...))
StoreResolved(p) ==
    /\ p.fn = "store"
    /\ Fulfilled(p)
    /\ pending' = pending \ {p}
    /\ UNCHANGED <<formVars, timepoints, currentTimepointId, dataExchange, server,
                   promises, calls, nextId, returned>>

\* the argument disassociateStudy passes to this.retrieveTimepoints
RefetchPatient == Undefined

\* disassociateFn(...).then(() => { remove({}); this.retrieveTimepoints(); })
DisassociateResolved(p) ==
    /\ p.fn = "disassociate"
    /\ Fulfilled(p)
    /\ server' = ServerDisassociate(server, p.timepointIds, p.studyInstanceUid)
    /\ timepoints' = Remove(timepoints, {})
    /\ calls' = calls + 1
    /\ LET others == pending \ {p}
       IN  IF "retrieve" \notin dataExchange
           THEN /\ pending' = others
                /\ UNCHANGED promises
           ELSE /\ pending' = others \cup
                        {[id |-> calls + 1, fn |-> "retrieve",
                          patientId |-> RefetchPatient]}
                /\ promises' = Append(promises,
                                      [id |-> calls + 1, state |-> "pending"])
    /\ UNCHANGED <<formVars, currentTimepointId, dataExchange, nextId, returned>>

\* removeFn(timepointData).then(() => this.timepoints.remove(timepointData))
RemoveResolved(p) ==
    /\ p.fn = "remove"
    /\ Fulfilled(p)
    /\ server' = ServerRemove(server, p.timepointId)
    /\ timepoints' = Removed(timepoints, p.timepointId)
    /\ pending' = pending \ {p}
    /\ UNCHANGED <<formVars, currentTimepointId, dataExchange, promises, calls, nextId,
                   returned>>

\* the completion callback applying the change of the update issued last
\* among those pending for the timepoint, instead of its own
UpdateResolvedLastIssued(p) ==
    LET same == {q \in pending : /\ q.fn = "update"
                                 /\ q.timepointId = p.timepointId}
        last == CHOOSE q \in same : \A o \in same : o.id <= q.id
    IN  /\ p.fn = "update"
        /\ Fulfilled(p)
        /\ server' = ServerUpdate(server, p.timepointId, p.query)
        /\ timepoints' = Updated(timepoints, p.timepointId, last.query)
        /\ pending' = pending \ {p}
        /\ UNCHANGED <<formVars, currentTimepointId, dataExchange, promises, calls,
                       nextId, returned>>

\* updateFn(timepointData, query).then(() => this.timepoints.update(...))
UpdateResolved(p) ==
    /\ p.fn = "update"
    /\ Fulfilled(p)
    /\ server' = ServerUpdate(server, p.timepointId, p.query)
    /\ timepoints' = Updated(timepoints, p.timepointId, p.query)
    /\ pending' = pending \ {p}
    /\ UNCHANGED <<formVars, currentTimepointId, dataExchange, promises, calls, nextId,
                   returned>>

\* the local change applied on rejection as on fulfilment
AfterRejectionApplied(coll, p) ==
    CASE p.fn = "update" -> Updated(coll, p.timepointId, p.query)
      [] p.fn = "remove" -> Removed(coll, p.timepointId)
      [] OTHER -> coll

\* the collection after an external promise rejected: there is no rejection
\* handler, so no callback of this class runs
AfterRejection(coll, p) == coll

Rejected(p) ==
    /\ settled' = "rejected"
    /\ timepoints' = AfterRejection(timepoints, p)
    /\ pending' = pending \ {p}
    /\ UNCHANGED <<formVars, currentTimepointId, dataExchange, server, promises, calls,
                   nextId, returned>>

-----------------------------------------------------------------------------

Next ==
    \/ \E patientId \in ServedPatients : retrieveTimepoints(patientId)
    \/ storeTimepoints
    \/ disassociateStudy({"tp1"}, "s1")
    \/ \E tp \in ServedIds : removeTimepoint(tp)
    \/ \E tp \in ServedIds, query \in Queries : updateTimepoint(tp, query)
    \/ lock
    \/ \E p \in pending : RetrieveResolved(p)
    \/ \E p \in pending : StoreResolved(p)
    \/ \E p \in pending : DisassociateResolved(p)
    \/ \E p \in pending : RemoveResolved(p)
    \/ \E p \in pending : UpdateResolved(p)
    \/ \E p \in pending : Rejected(p)

Spec == Init /\ [][Next]_vars

-----------------------------------------------------------------------------
(* Serialized use: one retrieval into the empty collection, then mutations,
   each called only when no external call is pending *)

RetrievalCompleted ==
    /\ promises # <<>>
    /\ \A i \in 1..Len(promises) : promises[i].state = "resolved"

NextSerial ==
    \/ /\ calls = 0
       /\ \E patientId \in ServedPatients : retrieveTimepoints(patientId)
    \/ /\ pending = {} /\ RetrievalCompleted
       /\ \E tp \in ServedIds : removeTimepoint(tp)
    \/ /\ pending = {} /\ RetrievalCompleted
       /\ \E tp \in ServedIds, query \in Queries : updateTimepoint(tp, query)
    \/ /\ pending = {} /\ RetrievalCompleted
       /\ lock
    \/ \E p \in pending : RetrieveResolved(p)
    \/ \E p \in pending : RemoveResolved(p)
    \/ \E p \in pending : UpdateResolved(p)
    \/ \E p \in pending : Rejected(p)

SpecSerial == Init /\ [][NextSerial]_vars

-----------------------------------------------------------------------------
(* The derived views called on a populated collection *)

MaxStored == 3

\* the documents a completed retrieval left in the collection
Stored(f) ==
    [i \in 1..Len(f) |-> [SourceRecord(f[i][1], f[i][2]) EXCEPT !._id = i]]

InitViews ==
    /\ \E n \in 0..MaxStored : \E f \in [1..n -> TimepointIds \X Dates] :
            timepoints = Stored(f)
    /\ currentTimepointId \in {Undefined, "tp1", "tp2"}
    /\ dataExchange = ExchangeFns
    /\ server = <<>>
    /\ pending = {}
    /\ promises = <<>>
    /\ calls = 0
    /\ nextId = Len(timepoints)
    /\ returned = [op |-> "constructor", arg |-> Undefined, value |-> <<>>]
    /\ settled = NothingSettled
    /\ NoFormItem

\* timepoints handed to name() and title(): the stored ones, and two that
\* may not be stored
Arguments == Range(timepoints) \cup {SourceRecord("tp1", 1), SourceRecord("tp3", 2)}

\* a view reads the collection and changes nothing, so its result does not
\* depend on the views called before it: one call per collection is explored
View(op, arg, value) ==
    /\ returned.op = "constructor"
    /\ returned' = [op |-> op, arg |-> arg, value |-> value]
    /\ UNCHANGED <<formVars, timepoints, currentTimepointId, dataExchange, server,
                   pending, promises, calls, nextId, settled>>

CallAll == View("all", Undefined, all(timepoints))

CallCurrent == View("current", Undefined, current(timepoints, currentTimepointId))

CallPrior == View("prior", Undefined, prior(timepoints, currentTimepointId))

CallCurrentAndPrior ==
    View("currentAndPrior", Undefined,
         currentAndPrior(timepoints, currentTimepointId))

StudyUids == {"s1", "s2", "s3"}

CallStudy(studyInstanceUid) ==
    View("study", studyInstanceUid, study(timepoints, studyInstanceUid))

\* a view that may log: its result and what it handed to OHIF.log.warn
Logged(op, arg, value, warnings) ==
    /\ returned.op = "constructor"
    /\ returned' = [op |-> op, arg |-> arg, value |-> value,
                    warnings |-> warnings]
    /\ UNCHANGED <<formVars, timepoints, currentTimepointId, dataExchange, server,
                   pending, promises, calls, nextId, settled>>

CallName(t) ==
    Logged("name", t, name(timepoints, t), nameWarnings(timepoints, t))

\* title() calls this.name(timepoint) first
CallTitle(t) ==
    Logged("title", t, title(timepoints, currentTimepointId, t),
           nameWarnings(timepoints, t))

NextViews ==
    \/ CallAll
    \/ CallCurrent
    \/ CallPrior
    \/ CallCurrentAndPrior
    \/ \E studyInstanceUid \in StudyUids : CallStudy(studyInstanceUid)
    \/ \E t \in Arguments : CallName(t)
    \/ \E t \in Arguments : CallTitle(t)

SpecViews == InitViews /\ [][NextViews]_vars

-----------------------------------------------------------------------------
(* key() called on a populated collection *)

MaxKeyed == 4

InitKey ==
    /\ \E n \in 0..MaxKeyed : \E f \in [1..n -> TimepointIds \X Dates] :
            timepoints = Stored(f)
    /\ currentTimepointId = Undefined
    /\ dataExchange = ExchangeFns
    /\ server = <<>>
    /\ pending = {}
    /\ promises = <<>>
    /\ calls = 0
    /\ nextId = Len(timepoints)
    /\ returned = [op |-> "constructor", arg |-> Undefined, value |-> <<>>]
    /\ settled = NothingSettled
    /\ NoFormItem

CallKey == View("key", Undefined, key(timepoints))

NextKey == CallKey

SpecKey == InitKey /\ [][NextKey]_vars

-----------------------------------------------------------------------------
(* The formItem mixin (OHIF.mixins.formItem): one form item, its wrapper, its
   error state and tooltip, and the deferred hide of the tooltip *)

MaxTimers == 2

\* false, '' and undefined are falsy: error(false) and error('') do the same
Falsy == ""

Truthy(x) == x \notin {Falsy, Undefined}

\* no .tooltip element next to $wrapper
NoTooltip == "no tooltip"

\* values of the :input element, as component.value() returns them
Values == {"", "a"}

ErrorMessages == {Falsy, "Custom error"}

\* instance.data.pathKey, the form getForm() finds and its schema, and the
\* flags the focus and blur handlers look at
Instances ==
    {i \in [pathKey : {Undefined, "name"}, form : BOOLEAN, schema : BOOLEAN,
            isGroup : BOOLEAN, isCustomFocus : BOOLEAN] :
        /\ i.schema => i.form
        /\ ~(i.isGroup /\ i.isCustomFocus)}

\* schema.validateOne(document, key) of a schema that requires the key
validateOne(document, pathKey) == document[pathKey] # ""

\* schema.keyErrorMessage(key)
keyErrorMessage(pathKey) == pathKey \o " is required"

\* component.state('error', errorMessage); then data-error set or removed
error(c, errorMessage) ==
    IF Truthy(errorMessage)
    THEN [c EXCEPT !.stateError = TRUE, !.dataError = errorMessage]
    ELSE [c EXCEPT !.stateError = FALSE, !.dataError = Undefined]

toggleTooltip(c, isShow, message) ==
    IF isShow /\ Truthy(message)
    THEN IF c.tooltip # NoTooltip THEN c
         ELSE [c EXCEPT !.tooltip = message]
    ELSE [c EXCEPT !.tooltip = NoTooltip]

\* toggleMessage(true); toggleMessage(false) only sets the timer
toggleMessage(c) ==
    LET errorMessage == c.dataError
    IN  IF Truthy(errorMessage) THEN toggleTooltip(c, TRUE, errorMessage)
        ELSE c

\* validate() validating hidden components too
ValidationNeededHidden(c, inst) ==
    Truthy(inst.pathKey) /\ inst.form /\ inst.schema

\* !(!key || !schema || !component.$wrapper.is(':visible'))
ValidationNeeded(c, inst) ==
    Truthy(inst.pathKey) /\ inst.form /\ inst.schema /\ c.visible

\* const document = OHIF.object.getNestedObject({[key]: component.value()})
Document(c, inst) == [pathKey \in {inst.pathKey} |-> c.value]

\* what validate() returns
validate(c, inst) ==
    IF ~ValidationNeeded(c, inst) THEN TRUE
    ELSE validateOne(Document(c, inst), inst.pathKey)

\* the component after validate()
Validated(c, inst) ==
    IF ~ValidationNeeded(c, inst) THEN c
    ELSE IF ~validateOne(Document(c, inst), inst.pathKey)
         THEN error(c, keyErrorMessage(inst.pathKey))
         ELSE error(c, Falsy)

\* the timer callback hiding the tooltip whatever has the focus
TimerCallbackNoRecheck(c, hasFocus) == toggleTooltip(c, FALSE, Undefined)

\* the callback toggleMessage(false) hands to Meteor.setTimeout
TimerCallback(c, hasFocus) ==
    IF hasFocus THEN c ELSE toggleTooltip(c, FALSE, Undefined)

apiVars == <<timepoints, currentTimepointId, dataExchange, server, pending,
             promises, calls, nextId, settled>>

\* the form item after onCreated, onRendered and onMixins
InitForm ==
    /\ \E value \in Values :
            component = [stateError |-> FALSE, dataError |-> Undefined,
                         tooltip |-> NoTooltip, visible |-> TRUE,
                         value |-> value]
    /\ instance \in Instances
    /\ focused = FALSE
    /\ timers = 0
    /\ timepoints = <<>>
    /\ currentTimepointId = Undefined
    /\ dataExchange = ExchangeFns
    /\ server = <<>>
    /\ pending = {}
    /\ promises = <<>>
    /\ calls = 0
    /\ nextId = 0
    /\ returned = [op |-> "constructor", value |-> Undefined]
    /\ settled = NothingSettled

CallValidate ==
    /\ component' = Validated(component, instance)
    /\ Returns("validate", validate(component, instance))
    /\ UNCHANGED <<instance, focused, timers, apiVars>>

CallError(errorMessage) ==
    /\ component' = error(component, errorMessage)
    /\ Returns("error", Undefined)
    /\ UNCHANGED <<instance, focused, timers, apiVars>>

CallShow(isShow) ==
    /\ component' = [component EXCEPT !.visible = isShow]
    /\ Returns("show", Undefined)
    /\ UNCHANGED <<instance, focused, timers, apiVars>>

\* component.value(value): val(value).trigger('change'), and the change
\* handler, which validates again when the form was validated already
CallValue(value, isValidatedAlready) ==
    /\ LET changed == [component EXCEPT !.value = value]
       IN  component' = IF instance.form /\ isValidatedAlready
                        THEN Validated(changed, instance)
                        ELSE changed
    /\ Returns("value", Undefined)
    /\ UNCHANGED <<instance, focused, timers, apiVars>>

\* events.focus: the element got the focus
Focus ==
    /\ focused' = TRUE
    /\ component' = IF instance.isGroup \/ instance.isCustomFocus
                    THEN component
                    ELSE toggleMessage(component)
    /\ Returns("focus", Undefined)
    /\ UNCHANGED <<instance, timers, apiVars>>

\* events.blur: the focus left the component
Blur ==
    /\ focused
    /\ timers < MaxTimers
    /\ focused' = FALSE
    /\ timers' = IF instance.isGroup \/ instance.isCustomFocus
                 THEN timers
                 ELSE timers + 1
    /\ Returns("blur", Undefined)
    /\ UNCHANGED <<component, instance, apiVars>>

\* a timer set by toggleMessage(false) runs its callback
Timeout ==
    /\ timers > 0
    /\ timers' = timers - 1
    /\ component' = TimerCallback(component, focused)
    /\ Returns("timeout", Undefined)
    /\ UNCHANGED <<instance, focused, apiVars>>

NextForm ==
    \/ CallValidate
    \/ \E errorMessage \in ErrorMessages : CallError(errorMessage)
    \/ \E isShow \in BOOLEAN : CallShow(isShow)
    \/ \E value \in Values, isValidatedAlready \in BOOLEAN :
            CallValue(value, isValidatedAlready)
    \/ Focus
    \/ Blur
    \/ Timeout

SpecForm == InitForm /\ [][NextForm]_vars

-----------------------------------------------------------------------------
(* Properties of the derived views *)

\* positions of the documents with the current timepointId, in insertion order
CurrentPositions ==
    {i \in 1..Len(timepoints) : timepoints[i].timepointId = currentTimepointId}

\* the document current() resolves to: the first one inserted
CurrentPosition == CHOOSE i \in CurrentPositions : \A j \in CurrentPositions : i <= j

OlderThanCurrent ==
    IF CurrentPositions = {} THEN {}
    ELSE {r \in Range(timepoints) :
            r.latestDate < timepoints[CurrentPosition].latestDate}

\* C7: prior() returns a record strictly older than the current record and
\* no older record is more recent than it; it returns nothing when there is
\* no current record or no record older than the current one.
C7_PriorIsLatestOlder ==
    returned.op = "prior" =>
        IF OlderThanCurrent = {} THEN returned.value = <<>>
        ELSE /\ Len(returned.value) = 1
             /\ returned.value[1] \in OlderThanCurrent
             /\ \A r \in OlderThanCurrent :
                    r.latestDate <= returned.value[1].latestDate

\* prior() chose among older records of different dates
C7_Witness ==
    /\ returned.op = "prior"
    /\ returned.value # <<>>
    /\ \E r \in OlderThanCurrent : r.latestDate < returned.value[1].latestDate

\* positions of the stored records with t's patientId and timepointType
Peers(t) ==
    {i \in 1..Len(timepoints) :
        /\ timepoints[i].patientId = t.patientId
        /\ timepoints[i].timepointType = t.timepointType}

\* position i comes before position j by latestDate ascending
Before(i, j) ==
    \/ timepoints[i].latestDate < timepoints[j].latestDate
    \/ timepoints[i].latestDate = timepoints[j].latestDate /\ i < j

\* 1-based position of t's timepointId among its peers by latestDate ascending
Rank(t) ==
    LET mine == {i \in Peers(t) : timepoints[i].timepointId = t.timepointId}
        first == CHOOSE i \in mine : \A j \in mine \ {i} : Before(i, j)
    IN  1 + Cardinality({i \in Peers(t) : Before(i, first)})

\* C9: name(t) is "Baseline" for a baseline timepoint whatever is stored, and
\* for a stored timepoint of another type "Follow-up k" with k the 1-based
\* position of its timepointId among the stored records of the same patient
\* and type by latestDate ascending.
C9_NameIsRank ==
    returned.op = "name" =>
        IF returned.arg.timepointType = "baseline"
        THEN returned.value = "Baseline"
        ELSE returned.arg \in Range(timepoints) =>
                returned.value = "Follow-up " \o ToString(Rank(returned.arg))

\* name() ranked a follow-up second while an earlier follow-up of another
\* patient and an earlier baseline were stored
C9_Witness ==
    /\ returned.op = "name"
    /\ returned.arg \in Range(timepoints)
    /\ returned.value = "Follow-up 2"
    /\ \E r \in Range(timepoints) :
            /\ r.patientId # returned.arg.patientId
            /\ r.timepointType = returned.arg.timepointType
            /\ r.latestDate < returned.arg.latestDate

\* positions in all() of the records linked to the study
StudyPositions(studyInstanceUid) ==
    {i \in 1..Len(timepoints) :
        studyInstanceUid \in all(timepoints)[i].studyInstanceUids}

\* C11: study(uid) returns exactly the records of all() whose
\* studyInstanceUids contains uid, each once, in the relative order they have
\* in all().
C11_StudyIsSubsequenceOfAll ==
    returned.op = "study" =>
        LET among == StudyPositions(returned.arg)
        IN  /\ Len(returned.value) = Cardinality(among)
            /\ \A i \in among :
                  returned.value[Cardinality({j \in among : j <= i})] =
                      all(timepoints)[i]

\* study() returned two records in the reverse of their insertion order and
\* left out a record that all() has between them
C11_Witness ==
    /\ returned.op = "study"
    /\ Len(returned.value) = 2
    /\ returned.value[1]._id > returned.value[2]._id
    /\ \E r \in Range(timepoints) :
            /\ returned.arg \notin r.studyInstanceUids
            /\ r.latestDate < returned.value[1].latestDate
            /\ r.latestDate > returned.value[2].latestDate

DistinctDates ==
    \A i, j \in 1..Len(timepoints) :
        timepoints[i].latestDate = timepoints[j].latestDate => i = j

\* C12: on a collection with pairwise distinct latestDate values all()
\* returns every stored record exactly once, in strictly descending
\* latestDate order, and the call leaves the collection as it was.
C12_AllStrictlyDescending ==
    [][(returned'.op = "all" /\ DistinctDates) =>
          LET result == returned'.value
          IN  /\ timepoints' = timepoints
              /\ Len(result) = Len(timepoints)
              /\ \A r \in Range(timepoints) :
                    Cardinality({i \in 1..Len(result) : result[i] = r}) = 1
              /\ \A i \in 1..(Len(result) - 1) :
                    result[i].latestDate > result[i + 1].latestDate]_vars

\* all() reordered three records of distinct dates
C12_Witness ==
    /\ returned.op = "all"
    /\ DistinctDates
    /\ Len(timepoints) = 3
    /\ returned.value # timepoints

-----------------------------------------------------------------------------
(* Properties of the methods and of the completion callbacks *)

WithoutId(r) == [f \in DOMAIN r \ {"_id"} |-> r[f]]

WithoutIds(s) == [i \in 1..Len(s) |-> WithoutId(s[i])]

\* C1: when a retrieval completes, all() is exactly the records the external
\* retrieve function supplied, by latestDate descending, whatever the
\* collection held before, and none of them has the _id of the source data.
C1_RetrieveReplaces ==
    [][\A p \in pending :
          (p.fn = "retrieve" /\ p \notin pending' /\ settled' = "fulfilled") =>
              LET supplied == ServerRetrieve(server, p.patientId)
              IN  /\ WithoutIds(all(timepoints')) = WithoutIds(SortDesc(supplied))
                  /\ \A r \in Range(timepoints') : r._id \notin SourceIds]_vars

\* the collection after update({timepointId: tp}, {$set: {latestDate: d}})
IsUpdateOf(after, before, tp, d) ==
    LET hits == {i \in 1..Len(before) : before[i].timepointId = tp}
    IN  /\ Len(after) = Len(before)
        /\ \A i \in 1..Len(before) :
              after[i] = IF i \in hits /\ \A j \in hits : i <= j
                         THEN [before[i] EXCEPT !.latestDate = d]
                         ELSE before[i]

\* the collection after remove({timepointId: tp})
IsRemovalOf(after, before, tp) ==
    /\ \A i \in 1..Len(after) : after[i].timepointId # tp
    /\ \E keep \in SUBSET (1..Len(before)) :
          /\ keep = {i \in 1..Len(before) : before[i].timepointId # tp}
          /\ Len(after) = Cardinality(keep)
          /\ \A i \in keep :
                after[Cardinality({j \in keep : j <= i})] = before[i]

\* C2: updateTimepoint and removeTimepoint leave the collection as it is when
\* they issue the external call; when the external promise is fulfilled the
\* mutation with filter {timepointId} is applied, and when it is rejected
\* the collection stays as it is.
C2_MutationAfterRoundTrip ==
    [][/\ \A p \in pending' \ pending :
              p.fn \in {"update", "remove"} => timepoints' = timepoints
       /\ \A p \in pending \ pending' :
              /\ p.fn = "update" =>
                    IF settled' = "fulfilled"
                    THEN IsUpdateOf(timepoints', timepoints, p.timepointId,
                                    p.query.value)
                    ELSE timepoints' = timepoints
              /\ p.fn = "remove" =>
                    IF settled' = "fulfilled"
                    THEN IsRemovalOf(timepoints', timepoints, p.timepointId)
                    ELSE timepoints' = timepoints]_vars

\* one retrieval filled the collection, then a removal and an update were
\* applied to it on completion
C2_Witness ==
    /\ calls = 3
    /\ nextId = 2
    /\ pending = {}
    /\ settled = "fulfilled"
    /\ Len(timepoints) = 1
    /\ timepoints[1].timepointId = "tp1"
    /\ timepoints[1].latestDate = 3

\* a step of lock(): a method was invoked, no external promise settled, and
\* the method was lock
LockStep ==
    /\ calls' = calls + 1
    /\ pending \subseteq pending'
    /\ returned'.op = "lock"

\* C3 as stated: lock() changes the collection only after a round trip
\* through an external function, never within the call.
C3_LockAfterRoundTrip ==
    [][LockStep => timepoints' = timepoints]_vars

\* C3 as the code has it: lock() issues no external call and sets locked on
\* the current record before it returns; with no current record it changes
\* nothing.
C3_LockIsLocal ==
    [][LockStep =>
          /\ pending' = pending
          /\ Len(timepoints') = Len(timepoints)
          /\ \A i \in 1..Len(timepoints) :
                timepoints'[i] =
                    IF CurrentPositions # {} /\ i = CurrentPosition
                    THEN [timepoints[i] EXCEPT !.locked = TRUE]
                    ELSE timepoints[i]]_vars

\* lock() was the last method invoked and the current record is locked
C3_Witness ==
    /\ returned.op = "lock"
    /\ CurrentPositions # {}
    /\ timepoints[CurrentPosition].locked
    /\ \E i \in 1..Len(timepoints) : ~timepoints[i].locked

\* the dataExchange function each method goes through
ExchangeFnOf(op) ==
    CASE op = "retrieveTimepoints" -> "retrieve"
      [] op = "storeTimepoints" -> "store"
      [] op = "updateTimepoint" -> "update"
      [] op = "removeTimepoint" -> "remove"
      [] op = "disassociateStudy" -> "disassociate"
      [] OTHER -> "none"

\* C4: a method whose dataExchange function is absent returns without an
\* error, invokes no external function and leaves the collection unchanged.
C4_AbsentFunctionIsNoOp ==
    [][(/\ calls' = calls + 1
        /\ pending \subseteq pending'
        /\ ExchangeFnOf(returned'.op) \in ExchangeFns \ dataExchange) =>
          /\ returned'.value # TypeError
          /\ pending' = pending
          /\ timepoints' = timepoints]_vars

\* C5: the collection is untouched until the disassociate promise settles;
\* when it is fulfilled the collection is emptied and retrieve is invoked
\* once, for the patient; when it is rejected nothing is cleared or fetched.
C5_DisassociateRefetches ==
    [][/\ \A p \in pending' \ pending :
              p.fn = "disassociate" => timepoints' = timepoints
       /\ \A p \in pending \ pending' :
              (p.fn = "disassociate" /\ "retrieve" \in dataExchange) =>
                  IF settled' = "fulfilled"
                  THEN /\ timepoints' = <<>>
                       /\ Cardinality(pending' \ pending) = 1
                       /\ \A q \in pending' \ pending :
                              q.fn = "retrieve" /\ q.patientId \in ServedPatients
                  ELSE /\ timepoints' = timepoints
                       /\ pending' = pending \ {p}]_vars

\* C13: storeTimepoints hands the external store function every document of
\* the collection and changes nothing locally: the collection and the current
\* timepoint are the same before the call, when it returns, and when the
\* store promise is fulfilled or rejected.
C13_StoreLeavesLocalState ==
    [][/\ \A p \in pending' \ pending :
              p.fn = "store" =>
                  /\ p.data = timepoints
                  /\ timepoints' = timepoints
                  /\ currentTimepointId' = currentTimepointId
       /\ \A p \in pending \ pending' :
              p.fn = "store" =>
                  /\ timepoints' = timepoints
                  /\ currentTimepointId' = currentTimepointId
       /\ (/\ calls' = calls + 1
           /\ pending \subseteq pending'
           /\ returned'.op = "storeTimepoints") =>
              /\ timepoints' = timepoints
              /\ currentTimepointId' = currentTimepointId]_vars

\* a retrieval filled the collection, storeTimepoints was called next, and
\* the store promise was rejected
C13_Witness ==
    /\ returned.op = "storeTimepoints"
    /\ "store" \in dataExchange
    /\ calls = 2
    /\ nextId = 2
    /\ Len(timepoints) = 2
    /\ pending = {}
    /\ settled = "rejected"

\* the stored record update({timepointId: tp}, ...) applies to
FirstWithId(coll, tp) ==
    coll[CHOOSE i \in 1..Len(coll) :
            /\ coll[i].timepointId = tp
            /\ \A j \in 1..(i - 1) : coll[j].timepointId # tp]

\* C16: each updateTimepoint is applied locally when its own promise is
\* fulfilled, whichever other updates of the same timepoint are still pending
\* and whether they were issued before or after it; so with two overlapping
\* updates the record ends with the change of the one fulfilled last.
C16_LastCompletionWins ==
    [][\A p \in pending \ pending' :
          (/\ p.fn = "update"
           /\ settled' = "fulfilled"
           /\ \E r \in Range(timepoints) : r.timepointId = p.timepointId) =>
              FirstWithId(timepoints', p.timepointId).latestDate =
                  p.query.value]_vars

\* two updates of tp2 overlapped: the one issued second was fulfilled first
\* and the record carries its date, while the one issued first, with another
\* date, is still pending
C16_Witness ==
    /\ calls = 3
    /\ settled = "fulfilled"
    /\ \E p \in pending :
            /\ pending = {p}
            /\ p.fn = "update"
            /\ p.id = 2
            /\ p.timepointId = "tp2"
            /\ p.query.value = 1
    /\ Len(timepoints) = 2
    /\ FirstWithId(timepoints, "tp2").latestDate = 3

\* state of the promise retrieveTimepoints returned for the external call id
PromiseState(all_promises, id) ==
    LET i == CHOOSE i \in 1..Len(all_promises) : all_promises[i].id = id
    IN  all_promises[i].state

\* C18: when the external retrieve promise settles, the promise
\* retrieveTimepoints returned settles too: it is resolved, with the fetched
\* records inserted, when retrieve is fulfilled, and it is not left pending
\* when retrieve is rejected.
C18_RetrievePromiseSettles ==
    [][\A p \in pending \ pending' :
          p.fn = "retrieve" =>
              /\ PromiseState(promises', p.id) # "pending"
              /\ settled' = "fulfilled" =>
                    /\ PromiseState(promises', p.id) = "resolved"
                    /\ WithoutIds(timepoints') =
                           WithoutIds(timepoints) \o
                               WithoutIds(ServerRetrieve(server, p.patientId))]_vars

\* C19 as stated: in serialized use, once the retrieval has completed and no
\* external call is pending, the collection holds the records of the
\* external source, with the same values in every field.
C19_LocalMirrorsSource ==
    (pending = {} /\ RetrievalCompleted) =>
        WithoutIds(timepoints) = WithoutIds(server)

\* C19 as the code has it: in serialized use, once the retrieval has
\* completed and no external call is pending, the collection holds the
\* records of the external source with the same values in every field but
\* locked, which lock() sets locally only: a record differs from the
\* source's only by being locked.
C19_MirrorsButForLocked ==
    (pending = {} /\ RetrievalCompleted) =>
        /\ Len(timepoints) = Len(server)
        /\ \A i \in 1..Len(timepoints) :
              \/ WithoutId(timepoints[i]) = WithoutId(server[i])
              \/ /\ timepoints[i].locked
                 /\ WithoutId([timepoints[i] EXCEPT !.locked = FALSE]) =
                        WithoutId(server[i])

\* after the retrieval one record was removed and the other was updated, at
\* the source and locally
C19_Witness ==
    /\ pending = {}
    /\ RetrievalCompleted
    /\ calls = 3
    /\ settled = "fulfilled"
    /\ Len(server) = 1
    /\ Len(timepoints) = 1
    /\ timepoints[1].timepointId = "tp2"
    /\ timepoints[1].latestDate = 3

\* C6: the collection holds at most one record per timepointId.
C6_UniqueTimepointIds ==
    \A i, j \in 1..Len(timepoints) :
        timepoints[i].timepointId = timepoints[j].timepointId => i = j


EndsWith(s, suffix) ==
    /\ Len(s) >= Len(suffix)
    /\ SubSeq(s, Len(s) - Len(suffix) + 1, Len(s)) = suffix

\* position of a stored record in all()
PositionInAll(r) ==
    CHOOSE i \in 1..Len(timepoints) : all(timepoints)[i] = r

\* C8: title(t) ends in "(Current)" for the record current() returns, in
\* "(Prior)" for the record right after it in all(), and in no parenthesis
\* for every other record; without a current record no title has a suffix.
C8_TitleSuffix ==
    \A t \in Range(timepoints) :
        LET ttl == title(timepoints, currentTimepointId, t)
        IN  IF CurrentPositions = {} THEN ~EndsWith(ttl, ")")
            ELSE LET pc == PositionInAll(timepoints[CurrentPosition])
                     pt == PositionInAll(t)
                 IN  CASE pt = pc -> EndsWith(ttl, "(Current)")
                       [] pt = pc + 1 -> EndsWith(ttl, "(Prior)")
                       [] OTHER -> ~EndsWith(ttl, ")")

\* C10: currentAndPrior() is empty without a current record, [current]
\* without an older record, and otherwise [current, prior] with two
\* different timepointIds.
C10_CurrentAndPriorDistinct ==
    LET both == currentAndPrior(timepoints, currentTimepointId)
    IN  /\ \A i, j \in 1..Len(both) :
              both[i].timepointId = both[j].timepointId => i = j
        /\ IF CurrentPositions = {} THEN both = <<>>
           ELSE /\ both[1] = timepoints[CurrentPosition]
                /\ Len(both) = IF OlderThanCurrent = {} THEN 1 ELSE 2

\* C20: with unique timepointIds and a current record, a stored record has a
\* title ending in "(Prior)" exactly when it is the record prior() returns,
\* also when several records share a latestDate.
C20_TitleAgreesWithPrior ==
    ((\A i, j \in 1..Len(timepoints) :
          timepoints[i].timepointId = timepoints[j].timepointId => i = j)
     /\ CurrentPositions # {}) =>
        \A t \in Range(timepoints) :
            EndsWith(title(timepoints, currentTimepointId, t), "(Prior)")
                <=> prior(timepoints, currentTimepointId) = <<t>>

-----------------------------------------------------------------------------
(* Properties of the form item *)

InErrorState(c, message) == c.stateError /\ c.dataError = message

NotInErrorState(c) == ~c.stateError /\ c.dataError = Undefined

\* C14 as stated: right after validate() the component is in error state,
\* with the schema's message for its key, if validate() returned false, and
\* not in error state if it returned true, whatever calls came before.
C14_ValidateSetsOrClearsError ==
    returned.op = "validate" =>
        IF returned.value
        THEN NotInErrorState(component)
        ELSE InErrorState(component, keyErrorMessage(instance.pathKey))

\* C14 as the code has it: when the component has a key, its form has a
\* schema and the wrapper is visible, validate() returns whether the value is
\* valid, and leaves the component in error state with the schema's message
\* when it returns false and out of error state when it returns true;
\* otherwise it returns true and leaves the error state as it was.
C14_ValidateWhenNeeded ==
    [][returned'.op = "validate" =>
          IF /\ Truthy(instance.pathKey)
             /\ instance.form /\ instance.schema
             /\ component.visible
          THEN IF returned'.value
               THEN NotInErrorState(component')
               ELSE InErrorState(component',
                                 keyErrorMessage(instance.pathKey))
          ELSE /\ returned'.value
               /\ component' = component]_vars

\* validate() returned true on a hidden component and left it in the error
\* state an earlier validate() had set
C14_Witness ==
    /\ returned.op = "validate"
    /\ returned.value
    /\ ~component.visible
    /\ InErrorState(component, keyErrorMessage(instance.pathKey))

\* C17: a blur sets a timer and leaves the tooltip as it is; a timer is
\* never cancelled, it goes only by firing; when it fires the tooltip is
\* destroyed if the component does not have the focus then, and left as it
\* is if it has, so a focus event between the blur and the firing keeps the
\* tooltip.
C17_DeferredHideRechecks ==
    [][/\ timers' >= timers - 1
       /\ timers' > timers =>
              /\ timers' = timers + 1
              /\ component'.tooltip = component.tooltip
       /\ timers' < timers =>
              component'.tooltip =
                  IF focused THEN component.tooltip ELSE NoTooltip]_vars

\* the timer of a blur fired after the focus had come back, and the tooltip
\* with the error message is still there
C17_Witness ==
    /\ returned.op = "timeout"
    /\ focused
    /\ timers = 0
    /\ component.tooltip = keyErrorMessage(instance.pathKey)

-----------------------------------------------------------------------------
(* name() on a timepoint that is not stored *)

\* no stored record has t's patientId, timepointType and timepointId
NotAmongPeers(t) ==
    \A r \in Range(timepoints) :
        ~(/\ r.patientId = t.patientId
          /\ r.timepointType = t.timepointType
          /\ r.timepointId = t.timepointId)

\* C21: name(t) on a timepoint t that is not a baseline and whose timepointId
\* no stored record of t's patient and type has logs one warning and returns
\* undefined, not an error, and leaves the collection as it was.
C21_AbsentNameWarns ==
    [][(/\ returned'.op = "name"
        /\ returned'.arg.timepointType # "baseline"
        /\ NotAmongPeers(returned'.arg)) =>
          /\ returned'.value = Undefined
          /\ returned'.warnings = <<NotInList>>
          /\ timepoints' = timepoints]_vars

\* name() returned undefined with a warning for a follow-up that is not
\* stored while another follow-up of the same patient is
C21_Witness ==
    /\ returned.op = "name"
    /\ returned.value = Undefined
    /\ returned.warnings = <<NotInList>>
    /\ returned.arg \notin Range(timepoints)
    /\ \E r \in Range(timepoints) :
            /\ r.patientId = returned.arg.patientId
            /\ r.timepointType = returned.arg.timepointType

====
